---------------------------- MODULE Spec2Model ----------------------------
(***************************************************************************)
(* A model of rif-relay-common's ContractInteractor (the client-side gate  *)
(* of the relay network) and of the VersionsManager it uses.               *)
(*                                                                         *)
(* Strings are TLA+ strings; TLC treats them as sequences of characters,   *)
(* so Len, SubSeq and \o act on them as on the program's strings.          *)
(***************************************************************************)
EXTENDS Integers, Sequences, FiniteSets, TLC

(***************************************************************************)
(* Bounds of the model.                                                    *)
(***************************************************************************)
\* Number of concurrent callers of ContractInteractor.getInstance.
NumCallers == 2
\* Largest gas price, worker balance and raw gas estimate drawn.
MaxGasPrice == 2
MaxBalance == 3
MaxGas == 2
\* Number of feasibility checks started in one behaviour.
MaxChecks == 2

(***************************************************************************)
(* String helpers (JavaScript String semantics).                           *)
(***************************************************************************)
\* The characters ordered as in ASCII: '-' < digits < upper case < lower case.
Alphabet == "-0123456789ABCDEFGHIJKLMNOPQRSTUVWXYZabcdefghijklmnopqrstuvwxyz"
Digits == "0123456789"

CharAt(s, i) == SubSeq(s, i, i)

\* Index of the first occurrence of the one-character string c in s, 0 if none.
IndexOf(s, c) ==
  IF \E i \in 1..Len(s) : CharAt(s, i) = c
  THEN CHOOSE i \in 1..Len(s) :
         /\ CharAt(s, i) = c
         /\ \A j \in 1..(i - 1) : CharAt(s, j) # c
  ELSE 0

\* String.prototype.includes
Includes(s, m) ==
  \E i \in 1..(Len(s) - Len(m) + 1) : SubSeq(s, i, i + Len(m) - 1) = m

\* String.prototype.replace with a string pattern: only the FIRST occurrence
\* of the pattern is replaced.
ReplaceFirst(s, c, d) ==
  LET i == IndexOf(s, c)
  IN  IF i = 0 THEN s
      ELSE SubSeq(s, 1, i - 1) \o d \o SubSeq(s, i + 1, Len(s))

\* String.prototype.split on a one-character separator.
RECURSIVE Split(_, _)
Split(s, c) ==
  LET i == IndexOf(s, c)
  IN  IF i = 0 THEN <<s>>
      ELSE <<SubSeq(s, 1, i - 1)>> \o Split(SubSeq(s, i + 1, Len(s)), c)

IsDigit(c) == IndexOf(Digits, c) # 0
DigitVal(c) == IndexOf(Digits, c) - 1
CharCode(c) == IndexOf(Alphabet, c)

AllDigits(s) == Len(s) > 0 /\ \A i \in 1..Len(s) : IsDigit(CharAt(s, i))

RECURSIVE ParseNat(_)
ParseNat(s) ==
  IF Len(s) = 0 THEN 0
  ELSE 10 * ParseNat(SubSeq(s, 1, Len(s) - 1)) + DigitVal(CharAt(s, Len(s)))

(***************************************************************************)
(* The semver library as VersionsManager uses it: valid and satisfies with *)
(* a caret range, strict mode, includePrerelease off.                      *)
(* Surrounding white space, which semver trims, is not modelled.           *)
(***************************************************************************)
\* A numeric identifier: 0, or digits without a leading zero.
IsNumericId(s) == AllDigits(s) /\ (Len(s) = 1 \/ CharAt(s, 1) # "0")

\* A pre-release identifier: a numeric identifier, or letters, digits and
\* hyphens with at least one non-digit.
IsPreId(s) ==
  /\ Len(s) > 0
  /\ \A i \in 1..Len(s) : CharCode(CharAt(s, i)) # 0
  /\ (AllDigits(s) => IsNumericId(s))

\* A build identifier: letters, digits and hyphens.
IsBuildId(s) == Len(s) > 0 /\ \A i \in 1..Len(s) : CharCode(CharAt(s, i)) # 0

\* The parts of a version string: an optional leading v, the core up to the
\* first '-' or '+', the pre-release up to '+', the build metadata.
StripV(s) == IF Len(s) > 0 /\ CharAt(s, 1) = "v" THEN SubSeq(s, 2, Len(s)) ELSE s
NoBuild(s) == LET p == IndexOf(s, "+") IN IF p = 0 THEN s ELSE SubSeq(s, 1, p - 1)
BuildOf(s) == LET p == IndexOf(s, "+") IN IF p = 0 THEN "" ELSE SubSeq(s, p + 1, Len(s))
HasBuild(s) == IndexOf(s, "+") # 0
CoreOf(s) ==
  LET t == NoBuild(StripV(s))
      d == IndexOf(t, "-")
  IN  IF d = 0 THEN t ELSE SubSeq(t, 1, d - 1)
PreOf(s) ==
  LET t == NoBuild(StripV(s))
      d == IndexOf(t, "-")
  IN  IF d = 0 THEN "" ELSE SubSeq(t, d + 1, Len(t))
HasPre(s) == IndexOf(NoBuild(StripV(s)), "-") # 0

\* semver.valid(s) # null
SemverValid(s) ==
  LET core == Split(CoreOf(s), ".")
      pre == Split(PreOf(s), ".")
      build == Split(BuildOf(s), ".")
  IN  /\ Len(core) = 3
      /\ \A i \in 1..3 : IsNumericId(core[i])
      /\ (HasPre(s) => \A i \in 1..Len(pre) : IsPreId(pre[i]))
      /\ (HasBuild(s) => \A i \in 1..Len(build) : IsBuildId(build[i]))

\* new SemVer(s), for a valid s.
SemverParse(s) ==
  LET core == Split(CoreOf(s), ".")
  IN  [major |-> ParseNat(core[1]), minor |-> ParseNat(core[2]),
       patch |-> ParseNat(core[3]),
       pre |-> IF HasPre(s) THEN Split(PreOf(s), ".") ELSE <<>>]

\* compareIdentifiers: numeric identifiers compare as numbers and sort before
\* the others, which compare as ASCII strings.  -1, 0 or 1.
RECURSIVE CompareStr(_, _)
CompareStr(a, b) ==
  IF Len(a) = 0 /\ Len(b) = 0 THEN 0
  ELSE IF Len(a) = 0 THEN -1
  ELSE IF Len(b) = 0 THEN 1
  ELSE IF CharCode(Head(a)) < CharCode(Head(b)) THEN -1
  ELSE IF CharCode(Head(a)) > CharCode(Head(b)) THEN 1
  ELSE CompareStr(Tail(a), Tail(b))

CompareIdentifiers(a, b) ==
  IF AllDigits(a) /\ AllDigits(b)
  THEN (IF ParseNat(a) < ParseNat(b) THEN -1
        ELSE IF ParseNat(a) > ParseNat(b) THEN 1 ELSE 0)
  ELSE IF AllDigits(a) THEN -1
  ELSE IF AllDigits(b) THEN 1
  ELSE CompareStr(a, b)

\* SemVer.comparePre: a version without pre-release is the greater one.
RECURSIVE ComparePre(_, _)
ComparePre(p, q) ==
  IF Len(p) = 0 /\ Len(q) = 0 THEN 0
  ELSE IF Len(p) = 0 THEN 1
  ELSE IF Len(q) = 0 THEN -1
  ELSE LET c == CompareIdentifiers(Head(p), Head(q))
       IN  IF c # 0 THEN c
           ELSE IF Len(p) = 1 /\ Len(q) = 1 THEN 0
           ELSE IF Len(p) = 1 THEN -1
           ELSE IF Len(q) = 1 THEN 1
           ELSE ComparePre(Tail(p), Tail(q))

\* SemVer.compare
SemverCompare(a, b) ==
  IF a.major # b.major THEN (IF a.major < b.major THEN -1 ELSE 1)
  ELSE IF a.minor # b.minor THEN (IF a.minor < b.minor THEN -1 ELSE 1)
  ELSE IF a.patch # b.patch THEN (IF a.patch < b.patch THEN -1 ELSE 1)
  ELSE ComparePre(a.pre, b.pre)

\* The exclusive upper end of the caret range ^c.
CaretUpper(c) ==
  IF c.major # 0 THEN [major |-> c.major + 1, minor |-> 0, patch |-> 0, pre |-> <<"0">>]
  ELSE IF c.minor # 0 THEN [major |-> 0, minor |-> c.minor + 1, patch |-> 0, pre |-> <<"0">>]
  ELSE [major |-> 0, minor |-> 0, patch |-> c.patch + 1, pre |-> <<"0">>]

SameTuple(a, b) == a.major = b.major /\ a.minor = b.minor /\ a.patch = b.patch

\* semver.satisfies(version, '^' + component), for a valid component: false
\* for a version that does not parse; a pre-release version satisfies only a
\* range one of whose comparators carries a pre-release on the same
\* major.minor.patch.
SemverSatisfiesCaret(version, component) ==
  /\ SemverValid(version)
  /\ LET v == SemverParse(version)
         lo == SemverParse(component)
         hi == CaretUpper(lo)
     IN  /\ SemverCompare(v, lo) >= 0
         /\ SemverCompare(v, hi) < 0
         /\ (Len(v.pre) > 0 =>
               \/ (Len(lo.pre) > 0 /\ SameTuple(v, lo))
               \/ SameTuple(v, hi))

(***************************************************************************)
(* VersionsManager                                                         *)
(***************************************************************************)
\* Whether new VersionsManager(componentVersion) constructs (no throw).
VersionsManagerConstructs(componentVersion) == SemverValid(componentVersion)

\* Variant: only a strictly different version is accepted.
isMinorSameOrNewer_Newer(componentVersion, version) ==
  /\ version # componentVersion
  /\ SemverSatisfiesCaret(ReplaceFirst(version, "_", "-"), componentVersion)

isMinorSameOrNewer(componentVersion, version) ==
  SemverSatisfiesCaret(ReplaceFirst(version, "_", "-"), componentVersion)

(***************************************************************************)
(* ContractInteractor: the singleton and its version gate.                 *)
(***************************************************************************)
VERSION == "2.0.1"

\* The versions a hub may report with versionHub().
HubVersions == {"2.0.1", "2.1.0", "1.0.0", "3.0.0", "2.0.1_beta"}

Callers == 1..NumCallers

VARIABLES
  hubVersion,      \* what RelayHub.versionHub() answers
  instance,        \* the static ContractInteractor.instance: "none" or "set"
  giPc,            \* per caller, where its getInstance call stands
  validated,       \* _validateVersion has accepted the hub version
  rejected,        \* _validateVersion has thrown
  versionHubCalls, \* how many times versionHub() was invoked
  constructed,     \* how many ContractInteractor objects were constructed; the
                   \* static field holds the latest one
  got              \* per caller, the object its call returned (numbered in
                   \* the order of construction), 0 while none

giVars == <<hubVersion, instance, giPc, validated, rejected, versionHubCalls,
            constructed, got>>

VARIABLES
  chkPc,            \* "idle", the pending await, or "done"
  req,              \* the request under check: path, gasPrice, relayHubAddress
  maxEstimatedGas,  \* local of getMaxViewable*GasLimit
  balanceRead,      \* the worker balance getBalance answered, -1 before
  externalGasLimit, \* local of validateAccept*Call, -1 before it is computed
  calls,            \* the gateway operations invoked by this check, in order
  result,           \* how the check ended: a verdict, or a thrown error
  estimateOutcome,  \* what the gas estimation answered
  verifierOutcome,  \* what verifyRelayedCall answered
  execOutcome,      \* what relayCall / deployCall answered
  chainTxs,         \* transactions submitted to the chain so far
  chainTxsAtStart,  \* chainTxs when the current check started
  checksStarted,    \* feasibility checks started so far
  execCall,         \* the overrides relayCall / deployCall was invoked with
  lastCheck         \* how the check before the current one went, for comparison

chkVars == <<chkPc, req, maxEstimatedGas, balanceRead, externalGasLimit, calls,
             result, estimateOutcome, verifierOutcome, execOutcome, chainTxs,
             chainTxsAtStart, checksStarted, execCall, lastCheck>>

VARIABLES
  opPc,          \* "idle", the pending await of the operation, or "done"
  opFn,          \* the operation called
  opFactor,      \* ESTIMATED_GAS_CORRECTION_FACTOR, in tenths (10 is 1.0)
  opCorrection,  \* INTERNAL_TRANSACTION_ESTIMATE_CORRECTION
  opAddCushion,  \* the addCushion argument
  opOutcome,     \* what the gateway answered to the operation
  opResult       \* how the operation ended

opVars == <<opPc, opFn, opFactor, opCorrection, opAddCushion, opOutcome, opResult>>

VARIABLES
  vmComponent,   \* the componentVersion a VersionsManager is constructed with
  vmState,       \* "none", "constructed" or "threw"
  vmQuery,       \* the version last passed to isMinorSameOrNewer, "" before
  vmAnswer       \* what isMinorSameOrNewer answered to it

vmVars == <<vmComponent, vmState, vmQuery, vmAnswer>>

otherVars == <<opVars, vmVars>>

\* _validateVersion(version) returns normally (does not throw).
ValidateVersionAccepts(version) == isMinorSameOrNewer(VERSION, version)

\* Variant: the static field is looked at only once the version is validated.
InstanceMissing_UntilValidated == ~validated

\* !ContractInteractor.instance
InstanceMissing == instance = "none"

\* getInstance up to its await: the instance check, the construction and the
\* assignment of the static field, then the call of versionHub().
GetInstanceCall(c) ==
  /\ giPc[c] = "idle"
  /\ IF InstanceMissing
     THEN /\ instance' = "set"
          /\ constructed' = constructed + 1
          /\ versionHubCalls' = versionHubCalls + 1
          /\ giPc' = [giPc EXCEPT ![c] = "awaitVersion"]
          /\ UNCHANGED got
     ELSE /\ giPc' = [giPc EXCEPT ![c] = "returned"]
          /\ got' = [got EXCEPT ![c] = constructed]
          /\ UNCHANGED <<instance, versionHubCalls, constructed>>
  /\ UNCHANGED <<hubVersion, validated, rejected>>
  /\ UNCHANGED <<chkVars, otherVars>>

\* getInstance after its await: _validateVersion, then the return.
GetInstanceResume(c) ==
  /\ giPc[c] = "awaitVersion"
  /\ IF ValidateVersionAccepts(hubVersion)
     THEN /\ validated' = TRUE
          /\ giPc' = [giPc EXCEPT ![c] = "returned"]
          /\ got' = [got EXCEPT ![c] = constructed]
          /\ UNCHANGED rejected
     ELSE /\ rejected' = TRUE
          /\ giPc' = [giPc EXCEPT ![c] = "threw"]
          /\ UNCHANGED <<validated, got>>
  /\ UNCHANGED <<hubVersion, instance, versionHubCalls, constructed>>
  /\ UNCHANGED <<chkVars, otherVars>>

\* A caller whose call threw calls getInstance again.
GetInstanceRetry(c) ==
  /\ giPc[c] = "threw"
  /\ giPc' = [giPc EXCEPT ![c] = "idle"]
  /\ UNCHANGED <<hubVersion, instance, validated, rejected, versionHubCalls,
                 constructed, got>>
  /\ UNCHANGED <<chkVars, otherVars>>

GiInit ==
  /\ hubVersion \in HubVersions
  /\ instance = "none"
  /\ giPc = [c \in Callers |-> "idle"]
  /\ validated = FALSE
  /\ rejected = FALSE
  /\ versionHubCalls = 0
  /\ constructed = 0
  /\ got = [c \in Callers |-> 0]

(***************************************************************************)
(* The gateway as the feasibility checks see it.                           *)
(***************************************************************************)
\* The failures a gateway call may end with: a simulated revert, or a
\* failure of the transport to the node.  The program sees only `message`.
Failures ==
  { [kind |-> "revert", message |-> "revert Not the owner"],
    [kind |-> "transport", message |-> "connect ECONNREFUSED"] }

NoOutcome == [kind |-> "none"]
OkOutcome == [kind |-> "ok"]

WorkerAddress == "0xWorker"
TxHash == "0xTxHash"

\* What `await relayHub.connect(relayWorker).relayCall(...)` and
\* `...deployCall(...)` resolve to: the method is invoked directly on the
\* contract object (not through callStatic, as in
\* walletFactoryDeployEstimateGasForInternalCall), so the signer sends the
\* transaction and ethers answers with the ContractTransaction (deployCall's
\* result is read as res.hash).  The boolean the hub's relayCall computes,
\* destinationCallSuccess, is not part of it.
HubCallResolution(destinationCallSuccess) ==
  [type |-> "ContractTransaction", hash |-> TxHash]

\* Whether a resolved hub call has submitted a transaction to the chain.
HubCallBroadcasts(res) == res.type = "ContractTransaction"

\* JavaScript's !v for the values a hub call resolves to: an object is truthy.
JsNot(v) == IF v.type = "boolean" THEN ~v.value ELSE FALSE

\* BigNumber.from(FixedNumber.from(raw.mul(ESTIMATED_GAS_CORRECTION_FACTOR)).ceiling())
\* with the factor at its neutral value.
ESTIMATED_GAS_CORRECTION_FACTOR == 1
ApplyCorrectionFactor(raw) == raw * ESTIMATED_GAS_CORRECTION_FACTOR

\* Mutant: the estimate is returned without the comparison with the balance.
MaxViewableGasLimit_NoClamp(balance, gasPrice, estimated) == estimated

\* Mutant: gt in place of gte, the boundary is not affordable.
MaxViewableGasLimit_Strict(balance, gasPrice, estimated) ==
  IF (balance \div gasPrice) > estimated THEN estimated ELSE 0

\* workerBalanceAsUnitsOfGas.gte(maxEstimatedGas) ? maxEstimatedGas : 0
\* with workerBalanceAsUnitsOfGas = balance.div(gasPrice), gasPrice # 0.
MaxViewableGasLimit(balance, gasPrice, estimated) ==
  IF (balance \div gasPrice) >= estimated THEN estimated ELSE 0

(***************************************************************************)
(* The verdicts of validateAcceptRelayCall and validateAcceptDeployCall.   *)
(***************************************************************************)
NotEnoughBalance ==
  " does not have enough balance to cover the maximum possible gas for this transaction"

RelayBalanceVerdict(worker) ==
  [verifierAccepted |-> FALSE, reverted |-> FALSE,
   returnValue |-> "relayWorker " \o worker \o NotEnoughBalance,
   revertedInDestination |-> FALSE]

RelayVerifierVerdict(message) ==
  [verifierAccepted |-> FALSE, reverted |-> FALSE,
   returnValue |-> "view call to 'relayCall' reverted in verifier: " \o message,
   revertedInDestination |-> FALSE]

RelayAcceptedVerdict(res) ==
  [verifierAccepted |-> TRUE, reverted |-> FALSE,
   returnValue |-> "",
   revertedInDestination |-> JsNot(res)]

\* Mutant: the catch clause of relayCall reports reverted: false.
RelayRevertedVerdict_NotReverted(message) ==
  [verifierAccepted |-> TRUE, reverted |-> FALSE,
   returnValue |-> "view call to 'relayCall' reverted in client: " \o message,
   revertedInDestination |-> FALSE]

RelayRevertedVerdict(message) ==
  [verifierAccepted |-> TRUE, reverted |-> TRUE,
   returnValue |-> "view call to 'relayCall' reverted in client: " \o message,
   revertedInDestination |-> FALSE]

DeployBalanceVerdict(worker) ==
  [verifierAccepted |-> FALSE, reverted |-> FALSE,
   returnValue |-> "relayWorker " \o worker \o NotEnoughBalance]

\* Mutant: the verifier's message is left out of the detail.
DeployVerifierVerdict_NoMessage(message) ==
  [verifierAccepted |-> FALSE, reverted |-> FALSE,
   returnValue |-> "view call to 'deploy call' reverted in verifier"]

DeployVerifierVerdict(message) ==
  [verifierAccepted |-> FALSE, reverted |-> FALSE,
   returnValue |-> "view call to 'deploy call' reverted in verifier: " \o message]

DeployAcceptedVerdict(res) ==
  [verifierAccepted |-> TRUE, reverted |-> FALSE, returnValue |-> res.hash]

\* Variant: the catch clause of deployCall also reports verifierAccepted: false.
DeployRevertedVerdict_Rejected(message) ==
  [verifierAccepted |-> FALSE, reverted |-> TRUE,
   returnValue |-> "view call to 'deployCall' reverted in client: " \o message]

DeployRevertedVerdict(message) ==
  [verifierAccepted |-> TRUE, reverted |-> TRUE,
   returnValue |-> "view call to 'deployCall' reverted in client: " \o message]

Verdict(v) == [kind |-> "verdict", value |-> v]
Thrown(m) == [kind |-> "thrown", message |-> m]
NoResult == [kind |-> "none"]

(***************************************************************************)
(* One feasibility check at a time; each action runs the code from one     *)
(* await to the next.                                                      *)
(***************************************************************************)
vars == <<giVars, chkVars, opVars, vmVars>>

NoReq == [path |-> "none", gasPrice |-> 0, relayHubAddress |-> FALSE]

\* No execution simulation invoked yet.
NoCall == [gasPrice |-> -1, gasLimit |-> -1]

\* Variant: the two overrides change places.
ExecutionOverrides_Swapped(gasPrice, limit) ==
  [gasPrice |-> limit, gasLimit |-> gasPrice]

\* { gasPrice: relayData.gasPrice, gasLimit: externalGasLimit }
ExecutionOverrides(gasPrice, limit) == [gasPrice |-> gasPrice, gasLimit |-> limit]

\* No check has ended yet.
NoCheck == [path |-> "none"]

\* What getBalance answered in the current check: the balance, the message of
\* its failure, or nothing when it was not called or has not answered.
BalanceAnswer ==
  IF balanceRead >= 0 THEN [kind |-> "ok", balance |-> balanceRead]
  ELSE IF Len(calls) = 2 /\ result.kind = "thrown"
  THEN [kind |-> "failed", message |-> result.message]
  ELSE NoOutcome

\* The inputs and the course of the check that has just ended.
CheckSummary ==
  [path |-> req.path, gasPrice |-> req.gasPrice,
   relayHubAddress |-> req.relayHubAddress,
   estimate |-> estimateOutcome, balance |-> BalanceAnswer,
   verifier |-> verifierOutcome.kind, execution |-> execOutcome.kind,
   steps |-> Len(calls), ended |-> result.kind,
   verifierAccepted |-> IF result.kind = "verdict"
                        THEN result.value.verifierAccepted ELSE FALSE,
   reverted |-> IF result.kind = "verdict" THEN result.value.reverted ELSE FALSE]

ChkInit ==
  /\ chkPc = "idle"
  /\ req = NoReq
  /\ maxEstimatedGas = -1
  /\ balanceRead = -1
  /\ externalGasLimit = -1
  /\ calls = <<>>
  /\ result = NoResult
  /\ estimateOutcome = NoOutcome
  /\ verifierOutcome = NoOutcome
  /\ execOutcome = NoOutcome
  /\ chainTxs = 0
  /\ chainTxsAtStart = 0
  /\ checksStarted = 0
  /\ execCall = NoCall
  /\ lastCheck = NoCheck

\* A check is made on an instance some getInstance call has handed out.
InstanceHandedOut == \E c \in Callers : giPc[c] = "returned"

\* The state a fresh check starts from.
Begin(r) ==
  /\ chkPc \in {"idle", "done"}
  /\ InstanceHandedOut
  /\ checksStarted < MaxChecks
  /\ checksStarted' = checksStarted + 1
  /\ req' = r
  /\ chainTxsAtStart' = chainTxs
  /\ estimateOutcome' = NoOutcome
  /\ verifierOutcome' = NoOutcome
  /\ execOutcome' = NoOutcome
  /\ maxEstimatedGas' = -1
  /\ balanceRead' = -1
  /\ execCall' = NoCall

\* The check ends: validateAccept*Call returns v or throws.
End(r) ==
  /\ chkPc' = "done"
  /\ result' = r


\* What the gateway may answer to a gas estimation, a balance read, a
\* verifier call and a hub call.
EstimateOutcomes == {[kind |-> "ok", gas |-> g] : g \in 0..MaxGas} \cup Failures
BalanceOutcomes == {[kind |-> "ok", balance |-> b] : b \in 0..MaxBalance} \cup Failures
VerifierOutcomes == {OkOutcome} \cup Failures
RelayCallOutcomes ==
  {[kind |-> "ok", destinationCallSuccess |-> b] : b \in BOOLEAN} \cup Failures
DeployCallOutcomes == {OkOutcome} \cup Failures

\* BigNumber.div throws on a zero divisor.
DivisionByZero == "division-by-zero"
HubUndefined == "calculateDeployCallGas: RelayHub must be defined"

(***************************************************************************)
(* validateAcceptRelayCall, with getMaxViewableRelayGasLimit and           *)
(* estimateRelayTransactionMaxPossibleGas inlined.                         *)
(***************************************************************************)
\* The call up to its first await.  getMaxViewableRelayGasLimit tests the gas
\* price, but the branch is an expression statement and returns nothing, so
\* every gas price goes on to the gas estimation.
RelayCheck(gasPrice, remembered) ==
  /\ Begin([path |-> "relay", gasPrice |-> gasPrice, relayHubAddress |-> TRUE])
  /\ lastCheck' = remembered
  /\ calls' = <<"provider.estimateGas">>
  /\ chkPc' = "awaitEstimate"
  /\ result' = NoResult
  /\ externalGasLimit' = -1
  /\ UNCHANGED chainTxs
  /\ UNCHANGED <<giVars, otherVars>>

\* Variant: the zero budget is never noticed.
BudgetIsZero_Never(limit) == FALSE

\* externalGasLimit.eq(0)
BudgetIsZero(limit) == limit = 0

\* validateAcceptRelayCall is called; lastCheck is left as it is.
ValidateAcceptRelayCall(gasPrice) == RelayCheck(gasPrice, lastCheck)

\* provider.estimateGas answers: the estimate is corrected and getBalance is
\* called, or the rejection leaves validateAcceptRelayCall uncaught.
RelayEstimateGasReturns ==
  /\ chkPc = "awaitEstimate"
  /\ req.path = "relay"
  /\ \E o \in EstimateOutcomes :
       /\ estimateOutcome' = o
       /\ IF o.kind = "ok"
          THEN /\ maxEstimatedGas' = ApplyCorrectionFactor(o.gas)
               /\ calls' = Append(calls, "provider.getBalance")
               /\ chkPc' = "awaitBalance"
               /\ UNCHANGED result
          ELSE /\ End(Thrown(o.message))
               /\ UNCHANGED <<maxEstimatedGas, calls>>
  /\ UNCHANGED <<req, balanceRead, externalGasLimit, verifierOutcome, execOutcome,
                 chainTxs, chainTxsAtStart, checksStarted, execCall,
                 lastCheck>>
  /\ UNCHANGED <<giVars, otherVars>>

\* getBalance answers: the division by the gas price, the comparison, and in
\* validateAcceptRelayCall the test of the limit and the verifier call.
RelayGetBalanceReturns ==
  /\ chkPc = "awaitBalance"
  /\ req.path = "relay"
  /\ \E o \in BalanceOutcomes :
       IF o.kind # "ok"
       THEN /\ End(Thrown(o.message))
            /\ UNCHANGED <<balanceRead, externalGasLimit, calls>>
       ELSE /\ balanceRead' = o.balance
            /\ IF req.gasPrice = 0
               THEN /\ End(Thrown(DivisionByZero))
                    /\ UNCHANGED <<externalGasLimit, calls>>
               ELSE LET limit == MaxViewableGasLimit(o.balance, req.gasPrice,
                                                     maxEstimatedGas)
                    IN  /\ externalGasLimit' = limit
                        /\ IF BudgetIsZero(limit)
                           THEN /\ End(Verdict(RelayBalanceVerdict(WorkerAddress)))
                                /\ UNCHANGED calls
                           ELSE /\ calls' = Append(calls, "relayVerifier.verifyRelayedCall")
                                /\ chkPc' = "awaitVerify"
                                /\ UNCHANGED result
  /\ UNCHANGED <<req, maxEstimatedGas, estimateOutcome, verifierOutcome, execOutcome,
                 chainTxs, chainTxsAtStart, checksStarted, execCall,
                 lastCheck>>
  /\ UNCHANGED <<giVars, otherVars>>

\* verifyRelayedCall answers: relayCall is invoked, or the catch clause
\* returns the verifier verdict.
\* The value verifyRelayedCall resolves to is discarded; whether the call is
\* sent as a transaction depends on the verifier's ABI, which this repository
\* does not hold, so it is modelled as leaving the chain unchanged.
RelayVerifierReturns ==
  /\ chkPc = "awaitVerify"
  /\ req.path = "relay"
  /\ \E o \in VerifierOutcomes :
       /\ verifierOutcome' = o
       /\ IF o.kind = "ok"
          THEN /\ calls' = Append(calls, "relayHub.relayCall")
               /\ execCall' = ExecutionOverrides(req.gasPrice, externalGasLimit)
               /\ chkPc' = "awaitExecute"
               /\ UNCHANGED result
          ELSE /\ End(Verdict(RelayVerifierVerdict(o.message)))
               /\ UNCHANGED <<calls, execCall>>
  /\ UNCHANGED <<req, maxEstimatedGas, balanceRead, externalGasLimit, estimateOutcome,
                 execOutcome, chainTxs, chainTxsAtStart, checksStarted, lastCheck>>
  /\ UNCHANGED <<giVars, otherVars>>

\* relayCall answers.
RelayCallReturns ==
  /\ chkPc = "awaitExecute"
  /\ req.path = "relay"
  /\ \E o \in RelayCallOutcomes :
       /\ execOutcome' = o
       /\ IF o.kind = "ok"
          THEN LET res == HubCallResolution(o.destinationCallSuccess)
               IN  /\ chainTxs' = chainTxs + (IF HubCallBroadcasts(res) THEN 1 ELSE 0)
                   /\ End(Verdict(RelayAcceptedVerdict(res)))
          ELSE /\ End(Verdict(RelayRevertedVerdict(o.message)))
               /\ UNCHANGED chainTxs
  /\ UNCHANGED <<req, maxEstimatedGas, balanceRead, externalGasLimit, calls,
                 estimateOutcome, verifierOutcome, chainTxsAtStart, checksStarted, execCall,
                 lastCheck>>
  /\ UNCHANGED <<giVars, otherVars>>

(***************************************************************************)
(* validateAcceptDeployCall, with getMaxViewableDeployGasLimit and         *)
(* walletFactoryEstimateGasOfDeployCall inlined.                           *)
(***************************************************************************)
\* Mutant: the zero gas price test never holds (as on the relay path).
DeployGasPriceIsZero_Never(gasPrice) == FALSE

\* BigNumber.from(gasPrice).eq(0)
DeployGasPriceIsZero(gasPrice) == gasPrice = 0

\* The call up to its first await: the zero gas price return of
\* getMaxViewableDeployGasLimit (and then the balance verdict), the throw of
\* walletFactoryEstimateGasOfDeployCall on a missing hub address, or the call
\* of estimateGas.deployCall.
DeployCheck(gasPrice, relayHubAddress, remembered) ==
  /\ Begin([path |-> "deploy", gasPrice |-> gasPrice,
            relayHubAddress |-> relayHubAddress])
  /\ lastCheck' = remembered
  /\ IF DeployGasPriceIsZero(gasPrice)
     THEN /\ externalGasLimit' = 0
          /\ End(Verdict(DeployBalanceVerdict(WorkerAddress)))
          /\ calls' = <<>>
     ELSE IF ~relayHubAddress
     THEN /\ End(Thrown(HubUndefined))
          /\ externalGasLimit' = -1
          /\ calls' = <<>>
     ELSE /\ calls' = <<"estimateGas.deployCall">>
          /\ chkPc' = "awaitEstimate"
          /\ result' = NoResult
          /\ externalGasLimit' = -1
  /\ UNCHANGED chainTxs
  /\ UNCHANGED <<giVars, otherVars>>

\* validateAcceptDeployCall is called; lastCheck is left as it is.
ValidateAcceptDeployCall(gasPrice, relayHubAddress) ==
  DeployCheck(gasPrice, relayHubAddress, lastCheck)

\* estimateGas.deployCall answers.
DeployEstimateGasReturns ==
  /\ chkPc = "awaitEstimate"
  /\ req.path = "deploy"
  /\ \E o \in EstimateOutcomes :
       /\ estimateOutcome' = o
       /\ IF o.kind = "ok"
          THEN /\ maxEstimatedGas' = o.gas
               /\ calls' = Append(calls, "provider.getBalance")
               /\ chkPc' = "awaitBalance"
               /\ UNCHANGED result
          ELSE /\ End(Thrown(o.message))
               /\ UNCHANGED <<maxEstimatedGas, calls>>
  /\ UNCHANGED <<req, balanceRead, externalGasLimit, verifierOutcome, execOutcome,
                 chainTxs, chainTxsAtStart, checksStarted, execCall,
                 lastCheck>>
  /\ UNCHANGED <<giVars, otherVars>>

\* getBalance answers.
DeployGetBalanceReturns ==
  /\ chkPc = "awaitBalance"
  /\ req.path = "deploy"
  /\ \E o \in BalanceOutcomes :
       IF o.kind # "ok"
       THEN /\ End(Thrown(o.message))
            /\ UNCHANGED <<balanceRead, externalGasLimit, calls>>
       ELSE /\ balanceRead' = o.balance
            /\ IF req.gasPrice = 0
               THEN /\ End(Thrown(DivisionByZero))
                    /\ UNCHANGED <<externalGasLimit, calls>>
               ELSE LET limit == MaxViewableGasLimit(o.balance, req.gasPrice,
                                                     maxEstimatedGas)
                    IN  /\ externalGasLimit' = limit
                        /\ IF BudgetIsZero(limit)
                           THEN /\ End(Verdict(DeployBalanceVerdict(WorkerAddress)))
                                /\ UNCHANGED calls
                           ELSE /\ calls' = Append(calls, "deployVerifier.verifyRelayedCall")
                                /\ chkPc' = "awaitVerify"
                                /\ UNCHANGED result
  /\ UNCHANGED <<req, maxEstimatedGas, estimateOutcome, verifierOutcome, execOutcome,
                 chainTxs, chainTxsAtStart, checksStarted, execCall,
                 lastCheck>>
  /\ UNCHANGED <<giVars, otherVars>>

\* Variant: a failed verifier simulation is tried again.
DeployVerifierReturns_Retry ==
  /\ chkPc = "awaitVerify"
  /\ req.path = "deploy"
  /\ \E o \in VerifierOutcomes :
       /\ verifierOutcome' = o
       /\ IF o.kind = "ok"
          THEN /\ calls' = Append(calls, "relayHub.deployCall")
               /\ execCall' = ExecutionOverrides(req.gasPrice, externalGasLimit)
               /\ chkPc' = "awaitExecute"
               /\ UNCHANGED result
          ELSE IF Len(calls) < 4
          THEN /\ calls' = Append(calls, "deployVerifier.verifyRelayedCall")
               /\ UNCHANGED <<chkPc, result, execCall>>
          ELSE /\ End(Verdict(DeployVerifierVerdict(o.message)))
               /\ UNCHANGED <<calls, execCall>>
  /\ UNCHANGED <<req, maxEstimatedGas, balanceRead, externalGasLimit, estimateOutcome,
                 execOutcome, chainTxs, chainTxsAtStart, checksStarted, lastCheck>>
  /\ UNCHANGED <<giVars, otherVars>>

\* verifyRelayedCall of the deploy verifier answers.
DeployVerifierReturns ==
  /\ chkPc = "awaitVerify"
  /\ req.path = "deploy"
  /\ \E o \in VerifierOutcomes :
       /\ verifierOutcome' = o
       /\ IF o.kind = "ok"
          THEN /\ calls' = Append(calls, "relayHub.deployCall")
               /\ execCall' = ExecutionOverrides(req.gasPrice, externalGasLimit)
               /\ chkPc' = "awaitExecute"
               /\ UNCHANGED result
          ELSE /\ End(Verdict(DeployVerifierVerdict(o.message)))
               /\ UNCHANGED <<calls, execCall>>
  /\ UNCHANGED <<req, maxEstimatedGas, balanceRead, externalGasLimit, estimateOutcome,
                 execOutcome, chainTxs, chainTxsAtStart, checksStarted, lastCheck>>
  /\ UNCHANGED <<giVars, otherVars>>

\* deployCall answers.
DeployCallReturns ==
  /\ chkPc = "awaitExecute"
  /\ req.path = "deploy"
  /\ \E o \in DeployCallOutcomes :
       /\ execOutcome' = o
       /\ IF o.kind = "ok"
          THEN LET res == HubCallResolution(TRUE)
               IN  /\ chainTxs' = chainTxs + (IF HubCallBroadcasts(res) THEN 1 ELSE 0)
                   /\ End(Verdict(DeployAcceptedVerdict(res)))
          ELSE /\ End(Verdict(DeployRevertedVerdict(o.message)))
               /\ UNCHANGED chainTxs
  /\ UNCHANGED <<req, maxEstimatedGas, balanceRead, externalGasLimit, calls,
                 estimateOutcome, verifierOutcome, chainTxsAtStart, checksStarted, execCall,
                 lastCheck>>
  /\ UNCHANGED <<giVars, otherVars>>

(***************************************************************************)
(* The gas estimations and verifyForwarder, one call at a time.            *)
(***************************************************************************)
\* Largest raw estimate and largest internal-transaction correction drawn.
MaxRaw == 3
MaxCorrection == 2

\* The correction factors drawn, in tenths: 1.0, 1.1 and 2.0.
FactorTenths == {10, 11, 20}

\* The raw estimates the node may answer.
RawEstimates == (0..MaxRaw) \cup {100000}

Value(v) == [kind |-> "value", value |-> v]
Resolved == [kind |-> "resolved"]
Rejected(m) == [kind |-> "rejected", message |-> m]

\* BigNumber.mul(other) converts a JavaScript number with BigNumber.from,
\* which throws a NUMERIC_FAULT (underflow) when the number has a fraction.
Underflow == "underflow"
FactorIsInteger(f) == f % 10 = 0
BigNumberMul(value, f) == value * (f \div 10)

\* FixedNumber.ceiling(): the number itself when its fraction is zero, else
\* the next whole number.
FixedCeiling(whole, fraction) == IF fraction = 0 THEN whole ELSE whole + 1

\* BigNumber.from(FixedNumber.from(maxPossibleGas.mul(FACTOR)).ceiling()):
\* the product is a BigNumber, a whole number, before it is made a FixedNumber.
CorrectedRelayEstimate(raw, f) ==
  IF FactorIsInteger(f)
  THEN Value(FixedCeiling(BigNumberMul(raw, f), 0))
  ELSE Thrown(Underflow)

\* Mutant: the correction is subtracted whatever the estimate.
InternalCallCost_AlwaysSubtract(estimated, correction) == estimated - correction

\* estimated.gt(CORRECTION) ? estimated.sub(CORRECTION) : estimated
InternalCallCost(estimated, correction) ==
  IF estimated > correction THEN estimated - correction ELSE estimated

\* estimateDestinationContractCallGas after its await.
DestinationCallGas(estimated, correction, addCushion, f) ==
  LET internalCallCost == InternalCallCost(estimated, correction)
  IN  IF ~addCushion THEN Value(internalCallCost)
      ELSE IF FactorIsInteger(f) THEN Value(BigNumberMul(internalCallCost, f))
      ELSE Thrown(Underflow)

\* What forwarder.verify may answer: nothing, or one of its reverts.
ForwarderFailures ==
  { [kind |-> "revert",
     message |-> "VM Exception while processing transaction: revert Not the owner of the SmartWallet"],
    [kind |-> "revert", message |-> "nonce mismatch"],
    [kind |-> "revert", message |-> "signature mismatch"] }

InvalidAddress == "invalid contract address or ENS name"

\* Mutant: a failure of forwarder.verify is caught and the call resolves.
VerifyForwarderResult_Swallow(o) == Resolved

\* await forwarder.verify(suffixData, request, signature), with nothing
\* around it: the promise of verifyForwarder settles as verify's does.
VerifyForwarderResult(o) ==
  IF o.kind = "ok" THEN Resolved ELSE Rejected(o.message)

OpIdle ==
  /\ opPc = "idle"
  /\ opFn = "none"
  /\ opFactor = 10 * ESTIMATED_GAS_CORRECTION_FACTOR
  /\ opCorrection = 0
  /\ opAddCushion = FALSE
  /\ opOutcome = NoOutcome
  /\ opResult = NoResult

OpInit ==
  /\ opPc = "idle"
  /\ opFn = "none"
  /\ opFactor \in FactorTenths
  /\ opCorrection \in 0..MaxCorrection
  /\ opAddCushion = FALSE
  /\ opOutcome = NoOutcome
  /\ opResult = NoResult

\* An operation is entered and runs to its gateway call.
OpCall(fn, addCushion) ==
  /\ opPc \in {"idle", "done"}
  /\ InstanceHandedOut
  /\ opFn' = fn
  /\ opAddCushion' = addCushion
  /\ opOutcome' = NoOutcome
  /\ opPc' = "await"
  /\ opResult' = NoResult
  /\ UNCHANGED <<opFactor, opCorrection>>
  /\ UNCHANGED <<giVars, chkVars, vmVars>>

\* An operation throws before any gateway call.
OpThrow(fn, m) ==
  /\ opPc \in {"idle", "done"}
  /\ InstanceHandedOut
  /\ opFn' = fn
  /\ opAddCushion' = FALSE
  /\ opOutcome' = NoOutcome
  /\ opPc' = "done"
  /\ opResult' = m
  /\ UNCHANGED <<opFactor, opCorrection>>
  /\ UNCHANGED <<giVars, chkVars, vmVars>>

EstimateRelayTransactionMaxPossibleGas ==
  OpCall("estimateRelayTransactionMaxPossibleGas", FALSE)

EstimateRelayTransactionMaxPossibleGasWithTransactionRequest(relayHubAddress) ==
  IF relayHubAddress
  THEN OpCall("estimateRelayTransactionMaxPossibleGasWithTransactionRequest", FALSE)
  ELSE OpThrow("estimateRelayTransactionMaxPossibleGasWithTransactionRequest",
               Thrown(HubUndefined))

EstimateDestinationContractCallGas(addCushion) ==
  OpCall("estimateDestinationContractCallGas", addCushion)

\* IForwarder__factory.connect throws on a callForwarder that is no address.
VerifyForwarder(callForwarderIsAddress) ==
  IF callForwarderIsAddress
  THEN OpCall("verifyForwarder", FALSE)
  ELSE OpThrow("verifyForwarder", Rejected(InvalidAddress))

EstimateFns ==
  {"estimateRelayTransactionMaxPossibleGas",
   "estimateRelayTransactionMaxPossibleGasWithTransactionRequest",
   "estimateDestinationContractCallGas"}

\* provider.estimateGas / estimateGas.relayCall answers an estimation.
OpEstimateReturns ==
  /\ opPc = "await"
  /\ opFn \in EstimateFns
  /\ \E o \in {[kind |-> "ok", gas |-> g] : g \in RawEstimates} \cup Failures :
       /\ opOutcome' = o
       /\ opResult' =
            IF o.kind # "ok" THEN Thrown(o.message)
            ELSE IF opFn = "estimateDestinationContractCallGas"
            THEN DestinationCallGas(o.gas, opCorrection, opAddCushion, opFactor)
            ELSE CorrectedRelayEstimate(o.gas, opFactor)
  /\ opPc' = "done"
  /\ UNCHANGED <<opFn, opFactor, opCorrection, opAddCushion>>
  /\ UNCHANGED <<giVars, chkVars, vmVars>>

\* forwarder.verify answers.
VerifyForwarderReturns ==
  /\ opPc = "await"
  /\ opFn = "verifyForwarder"
  /\ \E o \in {OkOutcome} \cup ForwarderFailures :
       /\ opOutcome' = o
       /\ opResult' = VerifyForwarderResult(o)
  /\ opPc' = "done"
  /\ UNCHANGED <<opFn, opFactor, opCorrection, opAddCushion>>
  /\ UNCHANGED <<giVars, chkVars, vmVars>>

\* The singleton after a getInstance call has returned it.
GiHandedOut ==
  /\ hubVersion = VERSION
  /\ instance = "set"
  /\ giPc = [c \in Callers |-> IF c = 1 THEN "returned" ELSE "idle"]
  /\ validated = TRUE
  /\ rejected = FALSE
  /\ versionHubCalls = 1
  /\ constructed = 1
  /\ got = [c \in Callers |-> IF c = 1 THEN 1 ELSE 0]

VmIdle ==
  /\ vmComponent = VERSION
  /\ vmState = "none"
  /\ vmQuery = ""
  /\ vmAnswer = FALSE

OpsInit == GiHandedOut /\ ChkInit /\ OpInit /\ VmIdle

OpsNext ==
  \/ EstimateRelayTransactionMaxPossibleGas
  \/ \E h \in BOOLEAN : EstimateRelayTransactionMaxPossibleGasWithTransactionRequest(h)
  \/ \E c \in BOOLEAN : EstimateDestinationContractCallGas(c)
  \/ \E a \in BOOLEAN : VerifyForwarder(a)
  \/ OpEstimateReturns
  \/ VerifyForwarderReturns

OpsSpec == OpsInit /\ [][OpsNext]_vars

(***************************************************************************)
(* VersionsManager on its own: one manager, constructed from the component *)
(* version drawn, then asked about remote versions.                        *)
(***************************************************************************)
\* Component versions semver.valid accepts, and strings it rejects.
ValidComponents ==
  {"0.0.3", "0.2.3", "1.2.3", "2.0.1", "1.0.0-alpha", "1.2.3-beta",
   "0.0.3-rc.1", "v1.2.3", "1.2.3+b1"}
InvalidComponents == {"", "x", "1.2", "01.2.3", "1.2.3_beta", "1.2.3.4"}
Components == ValidComponents \cup InvalidComponents

\* Number.prototype.toString of a non-negative integer.
RECURSIVE NatToStr(_)
NatToStr(n) ==
  IF n < 10 THEN CharAt(Digits, n + 1)
  ELSE NatToStr(n \div 10) \o CharAt(Digits, (n % 10) + 1)

FormatVersion(major, minor, patch) ==
  NatToStr(major) \o "." \o NatToStr(minor) \o "." \o NatToStr(patch)

\* semver.inc(v, 'patch'): a pre-release of x.y.z goes to x.y.z itself.
NextPatch(v) ==
  LET p == SemverParse(v)
  IN  FormatVersion(p.major, p.minor,
                    IF Len(p.pre) = 0 THEN p.patch + 1 ELSE p.patch)

\* semver.inc(v, 'major'): a pre-release of x.0.0 goes to x.0.0 itself.
NextMajor(v) ==
  LET p == SemverParse(v)
  IN  FormatVersion(IF p.minor # 0 \/ p.patch # 0 \/ Len(p.pre) = 0
                    THEN p.major + 1 ELSE p.major, 0, 0)

\* The remote versions asked about.
RemoteVersions ==
  Components
    \cup {NextPatch(v) : v \in ValidComponents}
    \cup {NextMajor(v) : v \in ValidComponents}
    \cup {"1.2.3_beta", "1.2.3_beta_1", "1.2.3-beta-1", "1.2.3-beta_1",
          "1.2.4_rc", "2.0.1_beta", "0.0.3_rc.1", "1.3.0", "0.3.0", "0.2.9"}

VerInit ==
  /\ GiHandedOut
  /\ ChkInit
  /\ OpIdle
  /\ vmComponent \in Components
  /\ vmState = "none"
  /\ vmQuery = ""
  /\ vmAnswer = FALSE

\* new VersionsManager(componentVersion)
VmConstruct ==
  /\ vmState = "none"
  /\ vmState' = IF VersionsManagerConstructs(vmComponent)
                THEN "constructed" ELSE "threw"
  /\ UNCHANGED <<vmComponent, vmQuery, vmAnswer>>
  /\ UNCHANGED <<giVars, chkVars, opVars>>

\* versionManager.isMinorSameOrNewer(version)
VmIsMinorSameOrNewer(version) ==
  /\ vmState \in {"constructed", "answered"}
  /\ vmState' = "answered"
  /\ vmQuery' = version
  /\ vmAnswer' = isMinorSameOrNewer(vmComponent, version)
  /\ UNCHANGED vmComponent
  /\ UNCHANGED <<giVars, chkVars, opVars>>

VerNext ==
  \/ VmConstruct
  \/ \E version \in RemoteVersions : VmIsMinorSameOrNewer(version)

VerSpec == VerInit /\ [][VerNext]_vars

(***************************************************************************)
(* The specification.                                                      *)
(***************************************************************************)
Init == GiInit /\ ChkInit /\ OpIdle /\ VmIdle

Next ==
  \/ \E c \in Callers : GetInstanceCall(c)
  \/ \E c \in Callers : GetInstanceResume(c)
  \/ \E c \in Callers : GetInstanceRetry(c)
  \/ \E p \in 0..MaxGasPrice : ValidateAcceptRelayCall(p)
  \/ RelayEstimateGasReturns
  \/ RelayGetBalanceReturns
  \/ RelayVerifierReturns
  \/ RelayCallReturns
  \/ \E p \in 0..MaxGasPrice, h \in BOOLEAN : ValidateAcceptDeployCall(p, h)
  \/ DeployEstimateGasReturns
  \/ DeployGetBalanceReturns
  \/ DeployVerifierReturns
  \/ DeployCallReturns

Spec == Init /\ [][Next]_vars

\* Every gateway call returns or fails: an awaited answer arrives.
GatewayAnswers ==
  /\ WF_vars(RelayEstimateGasReturns)
  /\ WF_vars(RelayGetBalanceReturns)
  /\ WF_vars(RelayVerifierReturns)
  /\ WF_vars(RelayCallReturns)
  /\ WF_vars(DeployEstimateGasReturns)
  /\ WF_vars(DeployGetBalanceReturns)
  /\ WF_vars(DeployVerifierReturns)
  /\ WF_vars(DeployCallReturns)

LiveSpec == Spec /\ GatewayAnswers

(***************************************************************************)
(* Checks made one after the other on an instance in use, each remembering *)
(* how the one before it went.                                             *)
(***************************************************************************)
PairInit == GiHandedOut /\ ChkInit /\ OpIdle /\ VmIdle

PairNext ==
  \/ \E p \in 0..MaxGasPrice : RelayCheck(p, CheckSummary)
  \/ RelayEstimateGasReturns
  \/ RelayGetBalanceReturns
  \/ RelayVerifierReturns
  \/ RelayCallReturns
  \/ \E p \in 0..MaxGasPrice, h \in BOOLEAN : DeployCheck(p, h, CheckSummary)
  \/ DeployEstimateGasReturns
  \/ DeployGetBalanceReturns
  \/ DeployVerifierReturns
  \/ DeployCallReturns

PairSpec == PairInit /\ [][PairNext]_vars

(***************************************************************************)
(* Properties.                                                          *)
(***************************************************************************)
Done == chkPc = "done"
VerifierInvoked ==
  \E i \in 1..Len(calls) :
    calls[i] \in {"relayVerifier.verifyRelayedCall", "deployVerifier.verifyRelayedCall"}
ExecutionInvoked ==
  \E i \in 1..Len(calls) : calls[i] \in {"relayHub.relayCall", "relayHub.deployCall"}
Failed(o) == o.kind \in {"revert", "transport"}

\* C1: once a getInstance call has failed because the hub version is not
\* compatible, no getInstance call has returned the instance to its caller.
C1_NoInstanceAfterRejection ==
  rejected => \A c \in Callers : giPc[c] # "returned"

\* C2: no getInstance call returns the shared instance before the hub version
\* has been read and validated for it.
C2_GateBeforeReturn ==
  \A c \in Callers : giPc[c] = "returned" => validated

\* C3: a feasibility check on a well-formed request ends with a verdict, never
\* with a thrown error, whatever the gateway answers and whatever the gas price.
C3_NeverThrows ==
  (Done /\ req.relayHubAddress) => result.kind = "verdict"

\* C4: when the maximum viewable gas limit is zero (in particular for a worker
\* balance of 0 at a gas price above 0), the check returns the balance
\* verdict: not accepted, not reverted, not reverted in destination, a detail
\* about the balance; and neither the verifier nor the execution is invoked.
C4_ZeroBudgetVerdict ==
  /\ (Done /\ balanceRead = 0 /\ req.gasPrice > 0) => externalGasLimit = 0
  /\ (Done /\ externalGasLimit = 0) =>
       /\ result.kind = "verdict"
       /\ result.value.verifierAccepted = FALSE
       /\ result.value.reverted = FALSE
       /\ (req.path = "relay" => result.value.revertedInDestination = FALSE)
       /\ Includes(result.value.returnValue, "does not have enough balance")
       /\ ~VerifierInvoked
       /\ ~ExecutionInvoked

C4_Witness ==
  /\ Done /\ req.path = "relay" /\ req.gasPrice > 0
  /\ balanceRead = 0 /\ externalGasLimit = 0
  /\ maxEstimatedGas > 0

\* C5: when the verifier simulation fails with message m, the check returns a
\* verdict that is not accepted and not reverted and whose detail contains m
\* unaltered.
C5_VerifierMessageVerbatim ==
  (Done /\ Failed(verifierOutcome)) =>
    /\ result.kind = "verdict"
    /\ result.value.verifierAccepted = FALSE
    /\ result.value.reverted = FALSE
    /\ Includes(result.value.returnValue, verifierOutcome.message)

C5_Witness ==
  /\ Done /\ req.path = "deploy" /\ externalGasLimit > 0
  /\ verifierOutcome.kind = "revert"
  /\ result.kind = "verdict"

\* C6: when the verifier simulation passes and the execution simulation
\* fails, the verdict is accepted by the verifier and reverted (and on the
\* relay path not reverted in destination).
C6_ExecutionRevertVerdict ==
  (Done /\ verifierOutcome.kind = "ok" /\ Failed(execOutcome)) =>
    /\ result.kind = "verdict"
    /\ result.value.verifierAccepted = TRUE
    /\ result.value.reverted = TRUE
    /\ (req.path = "relay" => result.value.revertedInDestination = FALSE)

C6_Witness ==
  /\ Done /\ req.path = "relay" /\ externalGasLimit > 0
  /\ verifierOutcome.kind = "ok" /\ execOutcome.kind = "revert"
  /\ result.kind = "verdict"

\* C7: on the relay path, when the execution succeeds, the verdict is
\* accepted, not reverted, and revertedInDestination is true exactly when the
\* destination call failed.
C7_RevertedInDestination ==
  (Done /\ req.path = "relay" /\ execOutcome.kind = "ok") =>
    /\ result.kind = "verdict"
    /\ result.value.verifierAccepted = TRUE
    /\ result.value.reverted = FALSE
    /\ result.value.revertedInDestination = ~execOutcome.destinationCallSuccess

\* C8: a feasibility check submits no transaction: the chain is as it was
\* when the check started.
C8_NoTransactionSubmitted ==
  chkPc # "idle" => chainTxs = chainTxsAtStart

\* C9: on the relay path a zero gas price yields the limit 0 with neither the
\* gas estimation nor the balance read invoked.
C9_RelayZeroGasPriceShortCircuit ==
  (chkPc # "idle" /\ req.path = "relay" /\ req.gasPrice = 0) =>
    /\ calls = <<>>
    /\ externalGasLimit = 0

\* C10: on the deploy path a zero gas price yields the limit 0 with neither
\* the gas estimation nor the balance read invoked, and the check returns the
\* balance verdict without invoking the verifier or the execution.
C10_DeployZeroGasPriceShortCircuit ==
  (chkPc # "idle" /\ req.path = "deploy" /\ req.gasPrice = 0) =>
    /\ Done
    /\ externalGasLimit = 0
    /\ calls = <<>>
    /\ estimateOutcome = NoOutcome /\ balanceRead = -1
    /\ result = Verdict(DeployBalanceVerdict(WorkerAddress))
    /\ result.value.verifierAccepted = FALSE
    /\ result.value.reverted = FALSE
    /\ Includes(result.value.returnValue, "does not have enough balance")

C10_Witness ==
  Done /\ req.path = "deploy" /\ req.gasPrice = 0 /\ result.kind = "verdict"

\* C11: for a gas price p > 0, a balance b and an estimate e, the limit
\* getMaxViewableRelayGasLimit / getMaxViewableDeployGasLimit returns is e
\* when the balance pays for e units (b >= e * p, the boundary included) and
\* 0 when it does not; nothing else is returned.
C11_AffordableOrZero ==
  (externalGasLimit # -1 /\ balanceRead >= 0 /\ req.gasPrice > 0) =>
    /\ (balanceRead >= maxEstimatedGas * req.gasPrice =>
          externalGasLimit = maxEstimatedGas)
    /\ (balanceRead < maxEstimatedGas * req.gasPrice => externalGasLimit = 0)
    /\ externalGasLimit \in {0, maxEstimatedGas}

\* The boundary: the balance buys exactly the estimate, with a remainder.
C11_Witness ==
  /\ req.gasPrice = 2 /\ balanceRead = 3 /\ maxEstimatedGas = 1
  /\ externalGasLimit = 1


(***************************************************************************)
(* Properties of the gas estimations and of verifyForwarder (OpsSpec).     *)
(***************************************************************************)
OpDone == opPc = "done"
OpAnswered == OpDone /\ opOutcome.kind = "ok"
FactorApplied ==
  \/ opFn \in {"estimateRelayTransactionMaxPossibleGas",
               "estimateRelayTransactionMaxPossibleGasWithTransactionRequest"}
  \/ (opFn = "estimateDestinationContractCallGas" /\ opAddCushion)
\* The estimate the factor is applied to.
FactorBase ==
  IF opFn = "estimateDestinationContractCallGas"
  THEN InternalCallCost(opOutcome.gas, opCorrection)
  ELSE opOutcome.gas
\* ceil(x * f) for a factor f in tenths.
CeilTimes(x, f) == (x * f + 9) \div 10

\* C12: an estimate the correction factor f is applied to is the whole number
\* ceil(raw * f): raw for f = 1.0, 110000 for raw = 100000 and f = 1.1.
C12_CorrectionFactorCeiling ==
  (OpAnswered /\ FactorApplied) =>
    opResult = Value(CeilTimes(FactorBase, opFactor))

\* C13: without cushion estimateDestinationContractCallGas returns r - C for
\* a raw estimate r > C and r for r <= C: never negative, never zero for
\* r > 0, never above r.
C13_InternalCorrectionFloor ==
  (OpAnswered /\ opFn = "estimateDestinationContractCallGas" /\ ~opAddCushion) =>
    /\ opResult.kind = "value"
    /\ (opOutcome.gas > opCorrection =>
          opResult.value = opOutcome.gas - opCorrection)
    /\ (opOutcome.gas <= opCorrection => opResult.value = opOutcome.gas)
    /\ opResult.value >= 0
    /\ (opOutcome.gas > 0 => opResult.value > 0)
    /\ opResult.value <= opOutcome.gas

C13_Witness ==
  /\ OpAnswered /\ opFn = "estimateDestinationContractCallGas" /\ ~opAddCushion
  /\ opCorrection = 2 /\ opOutcome.gas = 3
  /\ opResult = Value(1)

\* C18: verifyForwarder resolves with no value when forwarder.verify succeeds
\* and rejects with verify's own message when it fails.
C18_VerifyForwarderPropagates ==
  (OpDone /\ opFn = "verifyForwarder" /\ opOutcome.kind # "none") =>
    /\ (opOutcome.kind = "ok" => opResult = Resolved)
    /\ (opOutcome.kind # "ok" => opResult = Rejected(opOutcome.message))

C18_Witness ==
  /\ OpDone /\ opFn = "verifyForwarder"
  /\ opOutcome.kind = "revert" /\ opOutcome.message = "nonce mismatch"
  /\ opResult.kind = "rejected"



(***************************************************************************)
(* Properties of VersionsManager (under VerSpec).                          *)
(***************************************************************************)
VmAnswered == vmState = "answered"

\* String.prototype.replaceAll on one-character strings.
RECURSIVE ReplaceAll(_, _, _)
ReplaceAll(s, c, d) ==
  IF IndexOf(s, c) = 0 THEN s ELSE ReplaceAll(ReplaceFirst(s, c, d), c, d)

\* C14: for every valid component version v, including 0.x.y and 0.0.x, the
\* manager built from v answers true for nextPatch(v) and false for
\* nextMajor(v).
C14_NextPatchCompatibleNextMajorNot ==
  (VmAnswered /\ vmComponent \in ValidComponents) =>
     /\ (vmQuery = NextPatch(vmComponent) => vmAnswer)
     /\ (vmQuery = NextMajor(vmComponent) => ~vmAnswer)

\* C15: the manager built from a valid version v, with or without a
\* pre-release tag, answers true for v itself; for a string that is not a
\* semantic version the construction throws and no manager answers anything.
C15_ReflexiveAndConstructorRejects ==
  /\ (VmAnswered /\ vmQuery = vmComponent) => vmAnswer
  /\ (vmState # "none" /\ vmComponent \in InvalidComponents) =>
        (vmState = "threw" /\ vmQuery = "" /\ ~vmAnswer)
  /\ (vmState # "none" /\ vmComponent \in ValidComponents) => vmState # "threw"

C15_Witness ==
  /\ vmComponent = "1.2.3-beta"
  /\ VmAnswered
  /\ vmQuery = "1.2.3-beta"
  /\ vmAnswer

\* C16: the answer for a remote version r is the answer for r with every
\* underscore replaced by a hyphen, also when r has several underscores.
C16_EveryUnderscoreNormalised ==
  VmAnswered =>
    vmAnswer = isMinorSameOrNewer(vmComponent, ReplaceAll(vmQuery, "_", "-"))


(***************************************************************************)
(* Properties of the feasibility checks: failures, order, no retry.        *)
(***************************************************************************)
\* C17: when the verifier simulation or the execution simulation fails with a
\* transport failure, the check ends with a thrown error, not with a verdict.
C17_TransportFailureIsHardFailure ==
  (Done /\ (verifierOutcome.kind = "transport" \/ execOutcome.kind = "transport"))
     => result.kind = "thrown"

\* The gateway calls of one check, in the order of the code.
StepOrder ==
  IF req.path = "relay"
  THEN <<"provider.estimateGas", "provider.getBalance",
         "relayVerifier.verifyRelayedCall", "relayHub.relayCall">>
  ELSE <<"estimateGas.deployCall", "provider.getBalance",
         "deployVerifier.verifyRelayedCall", "relayHub.deployCall">>

Pending == chkPc \in {"awaitEstimate", "awaitBalance", "awaitVerify", "awaitExecute"}

\* The number of calls made when the check waits at each await.
CallsMadeAt ==
  [awaitEstimate |-> 1, awaitBalance |-> 2, awaitVerify |-> 3, awaitExecute |-> 4]

\* C19: the calls of one check are made one after the other in the order
\* estimate, balance, verifier, execution; the verifier is invoked only after
\* the estimate and the balance have been answered, and the execution only
\* after the verifier has succeeded on a non-zero budget.
C19_StepsSequential ==
  /\ Len(calls) <= 4
  /\ \A i \in 1..Len(calls) : calls[i] = StepOrder[i]
  /\ Pending => Len(calls) = CallsMadeAt[chkPc]
  /\ VerifierInvoked =>
       (estimateOutcome.kind = "ok" /\ maxEstimatedGas >= 0 /\ balanceRead >= 0)
  /\ ExecutionInvoked => (verifierOutcome.kind = "ok" /\ externalGasLimit > 0)

C19_Witness ==
  /\ Done
  /\ Len(calls) = 4
  /\ verifierOutcome.kind = "ok"
  /\ externalGasLimit > 0
  /\ execOutcome.kind = "ok"

\* No gateway call is made twice, and a failed step is the last one.
NoRetry ==
  /\ \A i, j \in 1..Len(calls) : calls[i] = calls[j] => i = j
  /\ Failed(estimateOutcome) => (Done /\ Len(calls) = 1)
  /\ Failed(verifierOutcome) => (Done /\ Len(calls) = 3)
  /\ Failed(execOutcome) => (Done /\ Len(calls) = 4)
  /\ result.kind = "thrown" => Done

\* C20: each gateway call of a check is made at most once, the first failing
\* step ends the check, and a check whose gateway calls all answer ends.
C20_NoRetryAndTerminates ==
  /\ []NoRetry
  /\ (Pending ~> Done)

C20_Witness ==
  /\ Done
  /\ Failed(verifierOutcome)
  /\ Len(calls) = 3
  /\ checksStarted = 2


\* C21: when the execution simulation is invoked, its gasLimit is the limit
\* the budget check of this check computed, which is above zero and at most
\* floor(balance / gasPrice) for the balance read in this check, and its
\* gasPrice is the gas price of the request.
C21_ExecutionWithinBudget ==
  ExecutionInvoked =>
    /\ req.gasPrice > 0
    /\ execCall.gasLimit = externalGasLimit
    /\ execCall.gasLimit > 0
    /\ execCall.gasLimit <= balanceRead \div req.gasPrice
    /\ execCall.gasPrice = req.gasPrice

C21_Witness ==
  /\ ExecutionInvoked
  /\ req.gasPrice = 2
  /\ balanceRead = 3
  /\ execCall = [gasPrice |-> 2, gasLimit |-> 1]


\* The revertedInDestination of a verdict; the deploy verdicts have no such
\* field, which reads as undefined.
RevertedInDestination(v) ==
  IF "revertedInDestination" \in DOMAIN v THEN v.revertedInDestination ELSE FALSE

\* The failure reasons a verdict indicates.
FailureReasons(v) ==
  (IF ~v.verifierAccepted THEN {"rejected"} ELSE {})
    \cup (IF v.reverted THEN {"reverted"} ELSE {})
    \cup (IF RevertedInDestination(v) THEN {"revertedInDestination"} ELSE {})

\* C22: in every verdict returned, reverted implies verifierAccepted,
\* revertedInDestination implies verifierAccepted and not reverted, and at
\* most one failure reason is indicated.
C22_VerdictFieldsConsistent ==
  result.kind = "verdict" =>
    LET v == result.value
    IN  /\ v.reverted => v.verifierAccepted
        /\ RevertedInDestination(v) => (v.verifierAccepted /\ ~v.reverted)
        /\ Cardinality(FailureReasons(v)) <= 1

C22_Witness ==
  /\ Done
  /\ req.path = "deploy"
  /\ result.kind = "verdict"
  /\ result.value.reverted
  /\ result.value.verifierAccepted


(***************************************************************************)
(* The two paths compared (under PairSpec).                                *)
(***************************************************************************)
\* Two answers of the gateway agree when they are equal or one of the two
\* checks did not get as far as asking.
Agree(a, b, unasked) == a = b \/ a = unasked \/ b = unasked

\* The check that has just ended and the one before it were made on the two
\* different paths with the same gas price and the same gateway answers.
SameInputsOnOtherPath ==
  /\ Done
  /\ lastCheck.path \notin {"none", req.path}
  /\ lastCheck.relayHubAddress /\ req.relayHubAddress
  /\ lastCheck.gasPrice = req.gasPrice
  /\ Agree(lastCheck.estimate, estimateOutcome, NoOutcome)
  /\ Agree(lastCheck.balance, BalanceAnswer, NoOutcome)
  /\ Agree(lastCheck.verifier, verifierOutcome.kind, "none")
  /\ Agree(lastCheck.execution, execOutcome.kind, "none")

SameCourse ==
  /\ lastCheck.steps = Len(calls)
  /\ lastCheck.ended = result.kind
  /\ result.kind = "verdict" =>
       /\ lastCheck.verifierAccepted = result.value.verifierAccepted
       /\ lastCheck.reverted = result.value.reverted

\* C23: a relay check and a deploy check with the same gas price, balance,
\* estimate and verifier and execution outcomes invoke the corresponding
\* gateway operations in the same order and end in the same way, with equal
\* verifierAccepted and reverted.
C23_PathsSameStateMachine ==
  SameInputsOnOtherPath => SameCourse

\* The same for a gas price above zero.
PathsAgreeAbovePriceZero ==
  (SameInputsOnOtherPath /\ req.gasPrice > 0) => SameCourse


(***************************************************************************)
(* The shared instance (under Spec).                                       *)
(***************************************************************************)
\* C24: every getInstance call that returns hands out the one object the
\* first call constructed, whatever the arguments of the later calls, and
\* versionHub() is called at most once.
C24_OneInstanceOneVersionFetch ==
  /\ constructed <= 1
  /\ versionHubCalls <= 1
  /\ \A c \in Callers : giPc[c] = "returned" => got[c] = 1
  /\ \A c \in Callers : giPc[c] # "returned" => got[c] = 0

C24_Witness ==
  \E c, d \in Callers :
    /\ c # d
    /\ giPc[c] = "returned" /\ giPc[d] = "returned"
    /\ got[c] = 1 /\ got[d] = 1
    /\ versionHubCalls = 1

=============================================================================
